---- MODULE Spec2Model ----
(***************************************************************************)
(* The Zig guest generator of wit-bindgen (crates/zig/src/lib.rs): the     *)
(* WorldGenerator operations of ZigWasm, the per-function emitter          *)
(* InterfaceGenerator::export with FunctionBindgen's lift/lower, and the   *)
(* run-time behaviour of the Zig text they emit.                           *)
(*                                                                         *)
(* Text is kept as a sequence of fragments, one per push_str/format! of    *)
(* the source, each a record [k, name, aux, items]: k names the template,  *)
(* name and aux are the strings substituted into it, items the list of     *)
(* (name, type) pairs substituted in a loop.                               *)
(***************************************************************************)
EXTENDS Integers, Sequences, FiniteSets, TLC

\* ------------------------------------------------------------- bounds
\* Longest parameter list and longest result list of a function.
MaxParams == 2
MaxResults == 2
\* Most imports/exports of a world with more than one item.
MaxItems == 2
\* The bytes of linear memory the emitted artifact's allocator can hand out,
\* and the longest string an exported function returns.
HeapSize == 32
MaxLen == 2
\* Most types of an anonymous tuple.
MaxFields == 2
\* Most calls of cabi_realloc in one run of the artifact.
MaxReallocs == 1

\* ------------------------------------------------------------- strings
\* An identifier of the schema is a kebab-case name: a sequence of words,
\* each word a sequence of one-character strings.
RECURSIVE Cat(_)
Cat(cs) == IF cs = <<>> THEN "" ELSE Head(cs) \o Cat(Tail(cs))

RECURSIVE JoinWith(_, _)
JoinWith(ws, sep) ==
    IF ws = <<>> THEN ""
    ELSE IF Len(ws) = 1 THEN Cat(ws[1])
    ELSE Cat(ws[1]) \o sep \o JoinWith(Tail(ws), sep)

\* The identifier as the schema holds it (func.name, the name of a param).
Raw(n) == JoinWith(n, "-")

Upper(c) ==
    CASE c = "a" -> "A" [] c = "b" -> "B" [] c = "c" -> "C"
      [] c = "i" -> "I" [] c = "m" -> "M" [] c = "n" -> "N"
      [] c = "o" -> "O" [] c = "p" -> "P" [] c = "r" -> "R"
      [] c = "s" -> "S" [] c = "w" -> "W" [] c = "y" -> "Y"
      [] OTHER -> c

to_snake_case(n) == JoinWith(n, "_")
to_kebab_case(n) == JoinWith(n, "-")

RECURSIVE to_upper_camel_case(_)
to_upper_camel_case(n) ==
    IF n = <<>> THEN ""
    ELSE Upper(Head(n)[1]) \o Cat(Tail(Head(n))) \o to_upper_camel_case(Tail(n))

ZIGKEYWORDS == {}

\* avoid_keyword that takes every identifier for a reserved word.
avoid_keyword_all(s) == s \o "_"

avoid_keyword(s) == IF s \in ZIGKEYWORDS THEN s \o "_" ELSE s

\* ------------------------------------------------------------- types
\* wit_parser::Type. "id_list" and "id_enum" are Type::Id of a list<u8>
\* and of an enum type definition.
Primitives == {"bool", "u8", "u16", "u32", "u64", "s8", "s16", "s32", "s64"}
IdTypes == {"id_list", "id_enum"}
AllTypes == Primitives \cup {"float32", "float64", "char", "string"} \cup IdTypes

\* The value of an operator at a todo!()/unwrap() that panics.
PANIC == "<panic>"

get_zig_ty(ty) ==
    CASE ty = "bool" -> "bool"
      [] ty = "u8" -> "u8"
      [] ty = "u16" -> "u16"
      [] ty = "u32" -> "u32"
      [] ty = "u64" -> "u64"
      [] ty = "s8" -> "s8"
      [] ty = "s16" -> "s16"
      [] ty = "s32" -> "s32"
      [] ty = "s64" -> "s64"
      [] ty = "float32" -> PANIC
      [] ty = "float64" -> PANIC
      [] ty = "char" -> PANIC
      [] ty = "string" -> "[]u8"
      [] ty \in IdTypes -> PANIC

get_zig_binding_ty(ty) ==
    CASE ty = "bool" -> "bool"
      [] ty = "u8" -> "u8"
      [] ty = "u16" -> "u16"
      [] ty = "u32" -> "u32"
      [] ty = "u64" -> "u64"
      [] ty = "s8" -> "s8"
      [] ty = "s16" -> "s16"
      [] ty = "s32" -> "s32"
      [] ty = "s64" -> "s64"
      [] ty = "float32" -> PANIC
      [] ty = "float64" -> PANIC
      [] ty = "char" -> PANIC
      [] ty = "string" -> "[*]u8"
      [] ty \in IdTypes -> PANIC

\* abi::guest_export_needs_post_return: some result holds a string or a list.
needs_post_return(ty) == ty \in {"string", "id_list"}

guest_export_needs_post_return(func) ==
    \E i \in 1..Len(func.results) : needs_post_return(func.results[i])

\* ------------------------------------------------------------- type names
\* A type with its structure: a primitive (name), a named type definition
\* without owner (ident), an anonymous compound type (args: the types it is
\* made of), or the absent type of an Option<&Type> ("none").
Ty(k, name, ident, args) == [k |-> k, name |-> name, ident |-> ident, args |-> args]
Prim(name) == Ty("prim", name, <<>>, <<>>)
NoTy == Ty("none", "", <<>>, <<>>)

RECURSIVE get_ty_name(_)
RECURSIVE get_optional_ty_name(_)
RECURSIVE get_ty_names(_)

\* The names of the types of a tuple, one after the other.
get_ty_names(tys) ==
    IF tys = <<>> THEN "" ELSE get_ty_name(Head(tys)) \o get_ty_names(Tail(tys))

\* record, resource, flags, enum and variant without a name are
\* unimplemented!() and not among the types named here.
get_ty_name(ty) ==
    CASE ty.k = "prim" ->
            (CASE ty.name = "bool" -> "Bool"
               [] ty.name = "u8" -> "U8"
               [] ty.name = "u16" -> "U16"
               [] ty.name = "u32" -> "U32"
               [] ty.name = "u64" -> "U64"
               [] ty.name = "s8" -> "S8"
               [] ty.name = "s16" -> "S16"
               [] ty.name = "s32" -> "S32"
               [] ty.name = "s64" -> "S64"
               [] ty.name = "float32" -> "F32"
               [] ty.name = "float64" -> "F64"
               [] ty.name = "char" -> "Byte"
               [] ty.name = "string" -> "String")
      [] ty.k = "named" -> to_upper_camel_case(ty.ident)
      [] ty.k = "type" -> get_ty_name(ty.args[1])
      [] ty.k = "tuple" ->
            "Tuple" \o ToString(Len(ty.args)) \o get_ty_names(ty.args) \o "T"
      [] ty.k = "option" -> "Option" \o get_ty_name(ty.args[1]) \o "T"
      [] ty.k = "result" ->
            "Result" \o get_optional_ty_name(ty.args[1])
            \o get_optional_ty_name(ty.args[1]) \o "T"
      [] ty.k = "list" -> "List" \o get_ty_name(ty.args[1]) \o "T"
      [] ty.k = "future" -> "Future" \o get_optional_ty_name(ty.args[1]) \o "T"
      [] ty.k = "stream" ->
            "Stream" \o get_optional_ty_name(ty.args[1])
            \o get_optional_ty_name(ty.args[2]) \o "T"
      [] ty.k = "own" -> "Own" \o get_ty_name(ty.args[1]) \o "T"
      [] ty.k = "borrow" -> "Borrow" \o get_ty_name(ty.args[1]) \o "T"

get_optional_ty_name(ty) ==
    IF ty.k = "none" THEN "Empty" ELSE get_ty_name(ty)

\* ------------------------------------------------------------- fragments
Frag(k, name, aux, items) == [k |-> k, name |-> name, aux |-> aux, items |-> items]

\* ------------------------------------------------------------- FunctionBindgen
\* lift_ty with the integer types spelled as get_ty spells them.
lift_ty_uint(ty) ==
    CASE ty = "bool" -> "bool"
      [] ty = "u8" -> "uint8"
      [] ty = "u16" -> "uint16"
      [] ty = "u32" -> "uint32"
      [] ty = "u64" -> "uint64"
      [] ty = "s8" -> "int8"
      [] ty = "s16" -> "int16"
      [] ty = "s32" -> "int32"
      [] ty = "s64" -> "int64"

\* The type lift_value pushes to self.args for a parameter of a primitive
\* type.
lift_ty(ty) ==
    CASE ty = "bool" -> "bool"
      [] ty = "u8" -> "u8"
      [] ty = "u16" -> "u16"
      [] ty = "u32" -> "u32"
      [] ty = "u64" -> "u64"
      [] ty = "s8" -> "s8"
      [] ty = "s16" -> "s16"
      [] ty = "s32" -> "s32"
      [] ty = "s64" -> "s64"

\* lift_value for one declared parameter: ok is FALSE at a todo!(); args are
\* the ABI parameters pushed to self.args, src the text pushed to lift_src.
lift_value(param, ty) ==
    IF ty \in Primitives
    THEN [ok |-> TRUE, args |-> << <<param, lift_ty(ty)>> >>, src |-> <<>>]
    ELSE IF ty = "string"
    THEN [ok |-> TRUE,
          args |-> << <<param \o "Ptr", "[*]u8">>, <<param \o "Length", "u32">> >>,
          src |-> << Frag("lift", param, "", <<>>) >>]
    ELSE [ok |-> FALSE, args |-> <<>>, src |-> <<>>]

\* lower_value for the result: ok is FALSE at a todo!(); src is the text
\* pushed to lower_src ("return result;\n}\n", or the alloc(8) block).
lower_value(ty) ==
    IF ty \in Primitives \cup {"float32", "float64", "char"}
    THEN [ok |-> TRUE, src |-> << Frag("lower", "prim", "", <<>>) >>]
    ELSE IF ty = "string"
    THEN [ok |-> TRUE, src |-> << Frag("lower", "string", "", <<>>) >>]
    ELSE [ok |-> FALSE, src |-> <<>>]

\* The lift loop of export over params[1..n]: args and lift_src after it.
RECURSIVE lift_all(_, _)
lift_all(params, n) ==
    IF n = 0 THEN [ok |-> TRUE, args |-> <<>>, src |-> <<>>]
    ELSE LET prev == lift_all(params, n - 1)
             cur == lift_value(avoid_keyword(to_snake_case(params[n].name)),
                               params[n].ty)
         IN  IF ~prev.ok \/ ~cur.ok
             THEN [ok |-> FALSE, args |-> <<>>, src |-> <<>>]
             ELSE [ok |-> TRUE, args |-> prev.args \o cur.args,
                   src |-> prev.src \o cur.src]

\* ------------------------------------------------------------- InterfaceGenerator
\* A WorldKey, or none (the generator of the world's own functions).
Key(kind, k, ns, pkg, iface) ==
    [kind |-> kind, k |-> k, ns |-> ns, pkg |-> pkg, iface |-> iface]
NoKey == Key("none", <<>>, <<>>, <<>>, <<>>)
NameKey(k) == Key("name", k, <<>>, <<>>, <<>>)
IdKey(ns, pkg, iface) == Key("id", <<>>, ns, pkg, iface)

get_ty_name_with(key) ==
    IF key.kind = "name" THEN to_upper_camel_case(key.k)
    ELSE to_upper_camel_case(key.ns) \o to_upper_camel_case(key.pkg)
         \o to_upper_camel_case(key.iface)

get_package_name_with(key) ==
    IF key.kind = "name" THEN to_upper_camel_case(key.k)
    ELSE Raw(key.ns) \o ":" \o Raw(key.pkg) \o "/" \o Raw(key.iface) \o "#"

\* get_package_name with the prefix qualified by the generator's world.
get_package_name_world(name, w) ==
    to_upper_camel_case(w)
    \o (IF name.kind = "none" THEN "" ELSE get_package_name_with(name))

get_package_name(name, w) ==
    IF name.kind = "none" THEN to_upper_camel_case(w)
    ELSE get_package_name_with(name)

get_interface_var_name(name) ==
    CASE name.kind = "name" -> to_snake_case(name.k)
      [] name.kind = "id" -> to_upper_camel_case(name.iface)
      [] name.kind = "none" -> "Guest"

NoPrefix == [some |-> FALSE, pre |-> ""]
SomePrefix(pre) == [some |-> TRUE, pre |-> pre]

\* The symbol of the binding's declaration.
export_symbol(func, func_prefix) ==
    IF func_prefix.some THEN func_prefix.pre \o Raw(func.name)
    ELSE "__export_" \o Raw(func.name)

\* The symbol of the post-return entry point.
post_return_symbol(func, func_prefix) ==
    IF func_prefix.some THEN "__post_return_" \o func_prefix.pre \o Raw(func.name)
    ELSE "__post_return_" \o Raw(func.name)

\* The arguments of the invocation statement.
invoke_args(func) ==
    [i \in 1..Len(func.params) |-> <<Raw(func.params[i].name), "">>]

\* The result type that export prints: iter_types().last().unwrap().
last_result(func) ==
    IF Len(func.results) = 0 THEN PANIC ELSE func.results[Len(func.results)]

\* InterfaceGenerator::export for a generator made with self.name = name:
\* ok is FALSE when it panics, src is the text it pushes to gen.src.
export(func, name, func_prefix) ==
    LET n == Len(func.results)
        lifted == IF n = 1 THEN lift_all(func.params, Len(func.params))
                  ELSE [ok |-> TRUE, args |-> <<>>, src |-> <<>>]
        lowered == IF n = 1 THEN lower_value(func.results[1])
                   ELSE [ok |-> TRUE, src |-> <<>>]
        interface_decl == Frag("decl", export_symbol(func, func_prefix),
                               IF func_prefix.some THEN "@" ELSE "", lifted.args)
        result == last_result(func)
        ret_ty == IF result = PANIC THEN PANIC ELSE get_zig_binding_ty(result)
        invoke == Frag("invoke", get_interface_var_name(name), Raw(func.name),
                       invoke_args(func))
        post == IF guest_export_needs_post_return(func)
                THEN << Frag("post_return", post_return_symbol(func, func_prefix),
                             IF func_prefix.some THEN "@" ELSE "", <<>>) >>
                ELSE <<>>
    IN  IF ~lifted.ok \/ ~lowered.ok \/ ret_ty = PANIC
        THEN [ok |-> FALSE, src |-> <<>>]
        ELSE [ok |-> TRUE,
              src |-> << interface_decl, Frag("ret", ret_ty, "", <<>>) >>
                      \o lifted.src \o << invoke >>
                      \o (IF n = 1 THEN lowered.src ELSE <<>>)
                      \o << Frag("nl", "", "", <<>>) >> \o post]

\* export called for funcs[1..n] in order on one generator.
RECURSIVE export_all(_, _, _, _)
export_all(funcs, n, name, func_prefix) ==
    IF n = 0 THEN [ok |-> TRUE, src |-> <<>>]
    ELSE LET prev == export_all(funcs, n - 1, name, func_prefix)
             cur == export(funcs[n], name, func_prefix)
         IN  IF ~prev.ok \/ ~cur.ok THEN [ok |-> FALSE, src |-> <<>>]
             ELSE [ok |-> TRUE, src |-> prev.src \o cur.src]

\* ------------------------------------------------------------- stubs
\* The "{name}: {ty}, " loop over params[1..n] of the struct members.
RECURSIVE stub_params(_, _)
stub_params(params, n) ==
    IF n = 0 THEN [ok |-> TRUE, src |-> <<>>]
    ELSE LET prev == stub_params(params, n - 1)
             ty == get_zig_ty(params[n].ty)
         IN  IF ~prev.ok \/ ty = PANIC THEN [ok |-> FALSE, src |-> <<>>]
             ELSE [ok |-> TRUE,
                   src |-> Append(prev.src,
                                  Frag("stub_param", Raw(params[n].name), ty, <<>>))]

\* One member "fn name(params" and, for exactly one result, ") ty {}\n".
stub(func) ==
    LET ps == stub_params(func.params, Len(func.params))
        res == IF Len(func.results) = 1 THEN get_zig_ty(func.results[1]) ELSE ""
    IN  IF ~ps.ok \/ res = PANIC THEN [ok |-> FALSE, src |-> <<>>]
        ELSE [ok |-> TRUE,
              src |-> << Frag("stub_open", Raw(func.name), "", <<>>) >> \o ps.src
                      \o (IF Len(func.results) = 1
                          THEN << Frag("stub_close", res, "", <<>>) >> ELSE <<>>)]

RECURSIVE stub_all(_, _)
stub_all(funcs, n) ==
    IF n = 0 THEN [ok |-> TRUE, src |-> <<>>]
    ELSE LET prev == stub_all(funcs, n - 1)
             cur == stub(funcs[n])
         IN  IF ~prev.ok \/ ~cur.ok THEN [ok |-> FALSE, src |-> <<>>]
             ELSE [ok |-> TRUE, src |-> prev.src \o cur.src]

\* ------------------------------------------------------------- the schema
\* Function{name, params, results}; the i-th parameter of every function of
\* the schema is named ParamName(i).
ParamName(i) ==
    CASE i = 1 -> << <<"s">> >>
      [] i = 2 -> << <<"m", "y">>, <<"a">> >>
      [] OTHER -> << [j \in 1..i |-> "c"] >>

SchemaTypes == {"u32", "string", "char", "id_list"}

TypeSeqs(n) == UNION {[1..k -> SchemaTypes] : k \in 0..n}

Func(name, tys, results) ==
    [name |-> name,
     params |-> [i \in 1..Len(tys) |-> [name |-> ParamName(i), ty |-> tys[i]]],
     results |-> results]

FuncNames == { << <<"b", "c">> >>, << <<"c">> >> }

RichFuncs ==
    {Func(<< <<"b", "c">> >>, ps, rs) : ps \in TypeSeqs(MaxParams),
                                        rs \in TypeSeqs(MaxResults)}

SimpleFuncs == {Func(n, <<>>, <<t>>) : n \in FuncNames, t \in {"u32", "string"}}

RichKeys ==
    {NameKey(<< <<"a">> >>), IdKey(<< <<"n">> >>, << <<"p">> >>, << <<"i">>, <<"o">> >>)}
IfaceKeys == RichKeys \cup {NameKey(<< <<"a", "b">> >>)}

\* One import or export of the world: an exported function ("func"), an
\* imported or exported interface with its functions, the imported
\* functions, the imported types.
Item(kind, key, funcs) == [kind |-> kind, key |-> key, funcs |-> funcs]

Items(F, K) ==
    {Item("func", NoKey, <<f>>) : f \in F}
    \cup {Item(k, key, <<f>>) : k \in {"import", "export"}, key \in K, f \in F}
    \cup {Item("import_func", NoKey, <<>>), Item("import_type", NoKey, <<>>)}

\* The keys of the imports are distinct, and so are the keys of the exports.
ValidItems(its) ==
    \A i, j \in 1..Len(its) :
        i < j =>
            /\ its[i].kind = its[j].kind =>
                 /\ its[i].kind \in {"import", "export"} => its[i].key # its[j].key
                 /\ its[i].kind = "func" => its[i].funcs[1].name # its[j].funcs[1].name
                 /\ its[i].kind \notin {"import_func", "import_type"}

WorldName == << <<"m", "y">>, <<"w">> >>

\* The worlds: none or one item with a function of any shape, or up to
\* MaxItems items with functions of the simple shapes.
Worlds ==
    {[name |-> WorldName, items |-> its] :
        its \in {<<>>} \cup {<<it>> : it \in Items(RichFuncs, RichKeys)}
                \cup {x \in UNION {[1..k -> Items(SimpleFuncs, IfaceKeys)] : k \in 2..MaxItems} :
                        ValidItems(x)}}

\* ------------------------------------------------------------- state
VARIABLES
    resolve,   \* the schema: the world being generated
    world,     \* ZigWasm.world
    src,       \* ZigWasm.src
    files,     \* the Files the driver passes to every operation
    pc,        \* "new", "run", "done", or "aborted" after a panic
    pending,   \* the items of the world the driver has not yet passed on
    ops,       \* the operations the driver has called in this run, in order
    runs,      \* the runs before this one: what was called, what came out
    opts,      \* ZigWasm.opts: the options the generator was built with
    \* the emitted artifact at its own run time
    heap,      \* the live blocks of `allocator`, each [ptr, len]
    mem,       \* the bytes written to linear memory, by address
    brk,       \* the next address `allocator` hands out
    rt,        \* "idle", or "panicked" once the artifact has terminated
    calls,     \* what each call of an export and of its post-return did
    last       \* the last call into the artifact: what ran, what it returned

gvars == <<resolve, world, src, files, pc, pending, ops, runs, opts>>
rtvars == <<heap, mem, brk, rt, calls, last>>
vars == <<resolve, world, src, files, pc, pending, ops, runs, opts,
          heap, mem, brk, rt, calls, last>>

\* Opts with every option at its default; stubs is the one option modelled.
Opts(stubs) == [stubs |-> stubs]
DefaultOpts == Opts(FALSE)

\* Linear memory before the artifact has run.
RtInit ==
    /\ heap = {}
    /\ mem = <<>>
    /\ brk = 1
    /\ rt = "idle"
    /\ calls = <<>>
    /\ last = [op |-> "none", failed |-> FALSE, ret |-> <<>>,
               before |-> <<"none", FALSE>>, reallocs |-> 0]

Init ==
    /\ resolve \in Worlds
    /\ world = <<>>
    /\ src = <<>>
    /\ files = <<>>
    /\ pc = "new"
    /\ pending = 1..Len(resolve.items)
    /\ ops = <<>>
    /\ runs = <<>>
    /\ opts = DefaultOpts
    /\ RtInit

ItemsOf(kind) == {i \in 1..Len(resolve.items) : resolve.items[i].kind = kind}

\* The exported functions of the world, in the order of world.exports.
RECURSIVE world_funcs(_, _)
world_funcs(items, n) ==
    IF n = 0 THEN <<>>
    ELSE world_funcs(items, n - 1)
         \o (IF items[n].kind = "func" THEN items[n].funcs ELSE <<>>)

WorldFuncs == world_funcs(resolve.items, Len(resolve.items))

\* The driver calls operation op: the first run in any order the guards
\* allow, a later run in the order of the first.
Driven(op) ==
    /\ runs # <<>> =>
         /\ Len(ops) < Len(runs[1].ops)
         /\ runs[1].ops[Len(ops) + 1] = op
    /\ ops' = Append(ops, op)
    /\ UNCHANGED runs

Abort ==
    /\ pc' = "aborted"
    /\ UNCHANGED <<resolve, opts, world, src, files, pending>>
    /\ UNCHANGED rtvars

preprocess ==
    /\ pc = "new"
    /\ Driven(<<"preprocess", 0>>)
    /\ world' = resolve.name
    /\ pc' = "run"
    /\ UNCHANGED <<resolve, opts, src, files, pending>>
    /\ UNCHANGED rtvars

import_interface(i) ==
    /\ pc = "run"
    /\ i \in pending
    /\ resolve.items[i].kind = "import"
    /\ Driven(<<"import_interface", i>>)
    /\ LET it == resolve.items[i]
           func_prefix == get_package_name(it.key, world)
           gen == export_all(it.funcs, Len(it.funcs), it.key, SomePrefix(func_prefix))
       IN  IF gen.ok
           THEN /\ src' = src \o gen.src
                /\ pending' = pending \ {i}
                /\ UNCHANGED <<resolve, opts, world, files, pc>>
                /\ UNCHANGED rtvars
           ELSE Abort

\* The struct of an exported interface.
export_interface_src(it) ==
    LET stubs == stub_all(it.funcs, Len(it.funcs))
    IN  IF it.key.kind # "id" \/ ~stubs.ok THEN [ok |-> FALSE, src |-> <<>>]
        ELSE [ok |-> TRUE,
              src |-> << Frag("struct_open", to_upper_camel_case(it.key.iface), "", <<>>) >>
                      \o stubs.src \o << Frag("struct_close", "", "", <<>>) >>]

export_interface(i) ==
    /\ pc = "run"
    /\ i \in pending
    /\ resolve.items[i].kind = "export"
    /\ Driven(<<"export_interface", i>>)
    /\ LET r == export_interface_src(resolve.items[i])
       IN  IF r.ok
           THEN /\ src' = src \o r.src
                /\ pending' = pending \ {i}
                /\ UNCHANGED <<resolve, opts, world, files, pc>>
                /\ UNCHANGED rtvars
           ELSE Abort

import_funcs ==
    /\ pc = "run"
    /\ ItemsOf("import_func") \cap pending # {}
    /\ Driven(<<"import_funcs", 0>>)
    /\ Abort

import_types ==
    /\ pc = "run"
    /\ ItemsOf("import_type") \cap pending # {}
    /\ Driven(<<"import_types", 0>>)
    /\ Abort

export_funcs ==
    /\ pc = "run"
    /\ ItemsOf("func") \cap pending # {}
    /\ Driven(<<"export_funcs", 0>>)
    /\ LET gen == export_all(WorldFuncs, Len(WorldFuncs), NoKey, NoPrefix)
       IN  IF gen.ok
           THEN /\ src' = src \o gen.src
                /\ pending' = pending \ ItemsOf("func")
                /\ UNCHANGED <<resolve, opts, world, files, pc>>
                /\ UNCHANGED rtvars
           ELSE Abort

\* The names pushed to export_names and to post_return_names.
export_names(funcs) == [i \in 1..Len(funcs) |-> Raw(funcs[i].name)]
\* post_return_names with a name for every function.
post_return_names_all(funcs) == export_names(funcs)

post_return_names(funcs) ==
    export_names(SelectSeq(funcs, guest_export_needs_post_return))

export_lines(names) ==
    [i \in 1..Len(names) |-> Frag("export_line", "__export_" \o names[i], names[i], <<>>)]
post_return_lines(names) ==
    [i \in 1..Len(names) |->
        Frag("post_line", "__post_return_" \o names[i], "cabi_post_" \o names[i], <<>>)]

\* finish_src without the mem::take: the preamble and the rest are pushed
\* after the text accumulated before finish.
finish_src_appended(funcs, old) ==
    LET stubs == stub_all(funcs, Len(funcs))
    IN  IF ~stubs.ok THEN [ok |-> FALSE, src |-> <<>>]
        ELSE [ok |-> TRUE,
              src |-> old \o << Frag("preamble", "", "", <<>>) >>
                      \o << Frag("struct_open", "Guest", "", <<>>) >> \o stubs.src
                      \o << Frag("struct_close_comptime", "", "", <<>>) >>
                      \o export_lines(export_names(funcs))
                      \o post_return_lines(post_return_names(funcs))
                      \o << Frag("main", "", "", <<>>) >>]

\* The text finish leaves in self.src, given the text accumulated before it.
finish_src(funcs, old) ==
    LET stubs == stub_all(funcs, Len(funcs))
    IN  IF ~stubs.ok THEN [ok |-> FALSE, src |-> <<>>]
        ELSE [ok |-> TRUE,
              src |-> << Frag("preamble", "", "", <<>>) >> \o old
                      \o << Frag("struct_open", "Guest", "", <<>>) >> \o stubs.src
                      \o << Frag("struct_close_comptime", "", "", <<>>) >>
                      \o export_lines(export_names(funcs))
                      \o post_return_lines(post_return_names(funcs))
                      \o << Frag("main", "", "", <<>>) >>]

\* file_name with the world's name in snake case.
file_name_snake(w) == to_snake_case(w.name) \o ".zig"

file_name(w) == to_kebab_case(w.name) \o ".zig"

finish ==
    /\ pc = "run"
    /\ pending = {}
    /\ Driven(<<"finish", 0>>)
    /\ LET r == finish_src(WorldFuncs, src)
       IN  IF r.ok
           THEN /\ src' = r.src
                /\ files' = Append(files, [name |-> file_name(resolve), contents |-> r.src])
                /\ pc' = "done"
                /\ UNCHANGED <<resolve, opts, world, pending>>
                /\ UNCHANGED rtvars
           ELSE Abort

Next ==
    \/ preprocess
    \/ \E i \in 1..Len(resolve.items) : import_interface(i)
    \/ \E i \in 1..Len(resolve.items) : export_interface(i)
    \/ import_funcs
    \/ import_types
    \/ export_funcs
    \/ finish

Spec == Init /\ [][Next]_vars

\* A second run started on the generator of the first, not on a new one.
new_run_reused ==
    /\ pc \in {"done", "aborted"}
    /\ runs = <<>>
    /\ runs' = << [ops |-> ops, files |-> files, pc |-> pc] >>
    /\ ops' = <<>>
    /\ files' = <<>>
    /\ pc' = "new"
    /\ pending' = 1..Len(resolve.items)
    /\ UNCHANGED <<resolve, opts, world, src>>
    /\ UNCHANGED rtvars

\* The driver starts a second run on the same schema and options: Opts::build
\* makes a new generator, and the driver a new Files.
new_run ==
    /\ pc \in {"done", "aborted"}
    /\ runs = <<>>
    /\ runs' = << [ops |-> ops, files |-> files, pc |-> pc] >>
    /\ ops' = <<>>
    /\ world' = <<>>
    /\ src' = <<>>
    /\ files' = <<>>
    /\ pc' = "new"
    /\ pending' = 1..Len(resolve.items)
    /\ UNCHANGED <<resolve, opts>>
    /\ UNCHANGED rtvars

NextRuns ==
    \/ Next
    \/ new_run

SpecRuns == Init /\ [][NextRuns]_vars

\* The options a driver can pass: stubs unset or set.
AllOpts == {Opts(b) : b \in BOOLEAN}

InitOpts ==
    /\ resolve \in Worlds
    /\ world = <<>>
    /\ src = <<>>
    /\ files = <<>>
    /\ pc = "new"
    /\ pending = 1..Len(resolve.items)
    /\ ops = <<>>
    /\ runs = <<>>
    /\ opts \in AllOpts
    /\ RtInit

\* Opts::build on options o for a second run on the same schema: a new
\* generator that keeps o in its opts field, and a new Files.
build(o) ==
    /\ pc \in {"done", "aborted"}
    /\ runs = <<>>
    /\ runs' = << [ops |-> ops, files |-> files, pc |-> pc, opts |-> opts] >>
    /\ opts' = o
    /\ ops' = <<>>
    /\ world' = <<>>
    /\ src' = <<>>
    /\ files' = <<>>
    /\ pc' = "new"
    /\ pending' = 1..Len(resolve.items)
    /\ UNCHANGED resolve
    /\ UNCHANGED rtvars

NextOpts ==
    \/ Next
    \/ \E o \in AllOpts : build(o)

SpecOpts == InitOpts /\ [][NextOpts]_vars

\* The worlds of one item whose function takes one parameter and returns one
\* result, each of any type.
TypeFuncs == {Func(<< <<"b", "c">> >>, <<t>>, <<r>>) : t \in AllTypes, r \in AllTypes}

TypeWorlds == {[name |-> WorldName, items |-> <<it>>] : it \in Items(TypeFuncs, RichKeys)}

InitTypes ==
    /\ resolve \in TypeWorlds
    /\ world = <<>>
    /\ src = <<>>
    /\ files = <<>>
    /\ pc = "new"
    /\ pending = 1..Len(resolve.items)
    /\ ops = <<>>
    /\ runs = <<>>
    /\ opts = DefaultOpts
    /\ RtInit

SpecTypes == InitTypes /\ [][Next]_vars

\* The anonymous compound types over u8, string and the resource r, and the
\* worlds that hold two of them.
LeafTypes == {Prim("u8"), Prim("string")}
OptLeafTypes == LeafTypes \cup {NoTy}
Resource == Ty("named", "", << <<"r">> >>, <<>>)

CompoundTypes ==
    {Ty("tuple", "", <<>>, ts) : ts \in UNION {[1..n -> LeafTypes] : n \in 1..MaxFields}}
    \cup {Ty(k, "", <<>>, <<t>>) : k \in {"option", "list"}, t \in LeafTypes}
    \cup {Ty(k, "", <<>>, <<a, b>>) : k \in {"result", "stream"},
                                     a \in OptLeafTypes, b \in OptLeafTypes}
    \cup {Ty("future", "", <<>>, <<t>>) : t \in OptLeafTypes}
    \cup {Ty(k, "", <<>>, <<Resource>>) : k \in {"own", "borrow"}}

NameWorlds ==
    {[name |-> WorldName, items |-> <<>>, types |-> <<a, b>>] :
        a \in CompoundTypes, b \in CompoundTypes}

InitNames ==
    /\ resolve \in NameWorlds
    /\ world = <<>>
    /\ src = <<>>
    /\ files = <<>>
    /\ pc = "new"
    /\ pending = {}
    /\ ops = <<>>
    /\ runs = <<>>
    /\ opts = DefaultOpts
    /\ RtInit

\* get_ty reaches the anonymous type resolve.types[i] and prints the name
\* get_ty_name gives it.
name_type(i) ==
    /\ pc = "run"
    /\ i = Len(src) + 1
    /\ i <= Len(resolve.types)
    /\ src' = Append(src, Frag("ty_name", get_ty_name(resolve.types[i]), "", <<>>))
    /\ UNCHANGED <<resolve, opts, world, files, pc, pending, ops, runs>>
    /\ UNCHANGED rtvars

NextNames ==
    \/ preprocess
    \/ \E i \in 1..Len(resolve.types) : name_type(i)

SpecNames == InitNames /\ [][NextNames]_vars

\* get_type_name of a generator made with self.name = name: the display
\* name of the generator's scope, then the name of the type.
get_type_name(name, w, ty_name) ==
    (IF name.kind = "none" THEN to_upper_camel_case(w) ELSE get_ty_name_with(name))
    \o ty_name

\* The keys of interfaces, some of which concatenate to one UpperCamelCase
\* string.
ScopeKeys ==
    {NameKey(<< <<"a">> >>),
     NameKey(<< <<"a">>, <<"b">> >>),
     NameKey(<< <<"n">>, <<"p">>, <<"i">>, <<"o">> >>),
     IdKey(<< <<"n">> >>, << <<"p">> >>, << <<"i">>, <<"o">> >>),
     IdKey(<< <<"n">> >>, << <<"p">>, <<"i">> >>, << <<"o">> >>),
     IdKey(<< <<"n">> >>, << <<"p">> >>, << <<"i">> >>)}

\* The worlds that import two interfaces of distinct keys, each without
\* functions.
ScopeWorlds ==
    {[name |-> WorldName,
      items |-> <<Item("import", ks[1], <<>>), Item("import", ks[2], <<>>)>>] :
        ks \in {x \in ScopeKeys \X ScopeKeys : x[1] # x[2]}}

InitScopes ==
    /\ resolve \in ScopeWorlds
    /\ world = <<>>
    /\ src = <<>>
    /\ files = <<>>
    /\ pc = "new"
    /\ pending = 1..Len(resolve.items)
    /\ ops = <<>>
    /\ runs = <<>>
    /\ opts = DefaultOpts
    /\ RtInit

\* The generator of interface i names the anonymous type ty_name of its
\* scope and prints the name.
type_name(i, ty_name) ==
    /\ pc = "run"
    /\ i \in pending
    /\ src' = Append(src, Frag("type_name",
                               get_type_name(resolve.items[i].key, world, ty_name),
                               ToString(i), <<>>))
    /\ pending' = pending \ {i}
    /\ UNCHANGED <<resolve, opts, world, files, pc, ops, runs>>
    /\ UNCHANGED rtvars

NextScopes ==
    \/ preprocess
    \/ \E i \in 1..Len(resolve.items) : type_name(i, "U8")

SpecScopes == InitScopes /\ [][NextScopes]_vars

\* ------------------------------------------------------------- the artifact at run time
\* The text of one binding: the declaration at c[i] and what export pushed
\* after it.
IsBindingFrag(f) == f.k \in {"ret", "lift", "invoke", "lower", "nl", "post_return"}

RECURSIVE SegEnd(_, _)
SegEnd(c, i) ==
    IF i < Len(c) /\ IsBindingFrag(c[i + 1]) THEN SegEnd(c, i + 1) ELSE i

Binding(c, i) == SubSeq(c, i, SegEnd(c, i))

Decls(c) == {i \in 1..Len(c) : c[i].k = "decl"}

HasFrag(seg, k, name) == \E j \in 1..Len(seg) : seg[j].k = k /\ seg[j].name = name
HasKind(seg, k) == \E j \in 1..Len(seg) : seg[j].k = k

\* std.mem.writeIntLittle / readIntLittle of a u32, and writeIntNative on
\* wasm32, which is little-endian.
le_bytes(x) == [i \in 1..4 |-> (x \div (256 ^ (i - 1))) % 256]
read_le(b) == b[1] + 256 * b[2] + 65536 * b[3] + 16777216 * b[4]
native_bytes(x) == le_bytes(x)

write_bytes(m, at, bytes) ==
    [a \in DOMAIN m \cup (at..(at + 3)) |->
        IF a - at \in 0..3 THEN bytes[a - at + 1] ELSE m[a]]

\* The state of `allocator` and of memory, as one value.
Rt == [heap |-> heap, mem |-> mem, brk |-> brk]

\* allocator.alloc(u8, len): ok is FALSE when out of memory; no block is
\* made for len = 0.
allocator_alloc(h, len) ==
    IF h.brk + len > HeapSize THEN [ok |-> FALSE, ptr |-> 0, h |-> h]
    ELSE IF len = 0 THEN [ok |-> TRUE, ptr |-> h.brk, h |-> h]
    ELSE [ok |-> TRUE, ptr |-> h.brk,
          h |-> [h EXCEPT !.heap = @ \cup {[ptr |-> h.brk, len |-> len]},
                          !.brk = @ + len]]

\* allocator.free(slice): nothing for an empty slice; ok is FALSE when the
\* slice is not a live block.
allocator_free(h, ptr, len) ==
    IF len = 0 THEN [ok |-> TRUE, h |-> h, freed |-> <<>>]
    ELSE IF [ptr |-> ptr, len |-> len] \in h.heap
    THEN [ok |-> TRUE, h |-> [h EXCEPT !.heap = @ \ {[ptr |-> ptr, len |-> len]}],
          freed |-> << [ptr |-> ptr, len |-> len] >>]
    ELSE [ok |-> FALSE, h |-> h, freed |-> <<>>]

\* allocator.realloc(old, new) of the live block old: resized in place when
\* it shrinks or is the last block and fits, else moved to a new block with
\* its bytes; ok is FALSE when out of memory, and old is untouched.
allocator_realloc(h, old, new) ==
    IF new <= old.len \/ (old.ptr + old.len = h.brk /\ old.ptr + new <= HeapSize)
    THEN [ok |-> TRUE, ptr |-> old.ptr,
          h |-> [h EXCEPT !.heap = (@ \ {old}) \cup {[ptr |-> old.ptr, len |-> new]},
                          !.brk = IF old.ptr + old.len = h.brk THEN old.ptr + new ELSE @]]
    ELSE IF h.brk + new > HeapSize THEN [ok |-> FALSE, ptr |-> 0, h |-> h]
    ELSE [ok |-> TRUE, ptr |-> h.brk,
          h |-> [heap |-> (h.heap \ {old}) \cup {[ptr |-> h.brk, len |-> new]},
                 mem |-> [a \in DOMAIN h.mem
                               \cup {h.brk + d : d \in {x \in 0..(old.len - 1) :
                                                           old.ptr + x \in DOMAIN h.mem}} |->
                             IF /\ a - h.brk \in 0..(old.len - 1)
                                /\ old.ptr + (a - h.brk) \in DOMAIN h.mem
                             THEN h.mem[old.ptr + (a - h.brk)] ELSE h.mem[a]],
                 brk |-> h.brk + new]]

\* alloc that hands the failure back to its caller as a null pointer.
alloc_null(h, len) ==
    IF h.brk + len > HeapSize THEN [ok |-> TRUE, ptr |-> 0, h |-> h]
    ELSE allocator_alloc(h, len)

\* The emitted alloc(len) of the preamble: ok is FALSE when it panics.
alloc(h, len) == allocator_alloc(h, len)

\* The emitted cabi_realloc of the preamble, called on a live block: ret is
\* the value returned, 0 for null.
cabi_realloc(h, old, newSize) ==
    LET r == allocator_realloc(h, old, newSize)
    IN  IF r.ok THEN [failed |-> FALSE, ret |-> r.ptr, h |-> r.h]
        ELSE [failed |-> TRUE, ret |-> 0, h |-> h]

\* What the text of a fragment calls of the allocator and of the runtime.
Invokes(f) ==
    CASE f.k = "preamble" -> {"allocator.alloc", "std.debug.panic", "allocator.realloc"}
      [] f.k = "lower" /\ f.name = "string" -> {"alloc"}
      [] f.k = "post_return" -> {"allocator.free"}
      [] OTHER -> {}

\* lower_string_rt with the block sized to the result instead of to the
\* header.
lower_string_rt_sized(h, result) ==
    LET a == alloc(h, result.len)
        m1 == write_bytes(a.h.mem, a.ptr, le_bytes(result.ptr))
        m2 == write_bytes(m1, a.ptr + 4, le_bytes(result.len))
    IN  IF ~a.ok THEN [ok |-> FALSE, h |-> h, ret |-> 0, allocs |-> <<>>]
        ELSE [ok |-> TRUE, h |-> [a.h EXCEPT !.mem = m2], ret |-> a.ptr,
              allocs |-> << [ptr |-> a.ptr, len |-> result.len] >>]

\* The text lower_value emits for a string result, run on result = the
\* slice the Guest function returned: ret is the value returned.
lower_string_rt(h, result) ==
    LET a == alloc(h, 8)
        m1 == write_bytes(a.h.mem, a.ptr, le_bytes(result.ptr))
        m2 == write_bytes(m1, a.ptr + 4, le_bytes(result.len))
    IN  IF ~a.ok THEN [ok |-> FALSE, h |-> h, ret |-> 0, allocs |-> <<>>]
        ELSE [ok |-> TRUE, h |-> [a.h EXCEPT !.mem = m2], ret |-> a.ptr,
              allocs |-> << [ptr |-> a.ptr, len |-> 8] >>]

\* The text of the post-return entry point, run on its argument: read is
\* the (bytesPtr, ptr_size) it computes, freed the blocks it released.
post_return_rt(h, arg) ==
    LET nb == native_bytes(arg)
        buffer == [i \in 1..8 |-> IF i <= 4 THEN nb[i] ELSE 0]
        bytesPtr == read_le(SubSeq(buffer, 1, 4))
        ptr_size == read_le(SubSeq(buffer, 5, 8))
        f == allocator_free(h, bytesPtr, ptr_size)
    IN  [ok |-> f.ok, h |-> f.h, read |-> [ptr |-> bytesPtr, len |-> ptr_size],
         freed |-> f.freed]

\* The run of the generator on a world of one item: what the operations
\* leave in the file.
generate(w) ==
    LET it == w.items[1]
        gen == IF it.kind = "func"
               THEN export_all(it.funcs, Len(it.funcs), NoKey, NoPrefix)
               ELSE export_all(it.funcs, Len(it.funcs), it.key,
                               SomePrefix(get_package_name(it.key, w.name)))
    IN  finish_src(IF it.kind = "func" THEN it.funcs ELSE <<>>, gen.src).src

\* Worlds whose one function takes and returns a string.
RtWorlds ==
    {[name |-> WorldName, items |-> <<it>>] :
        it \in {Item("func", NoKey, <<Func(<< <<"b", "c">> >>, <<"string">>, <<"string">>)>>),
                Item("import", IdKey(<< <<"n">> >>, << <<"p">> >>, << <<"i">>, <<"o">> >>),
                     <<Func(<< <<"b", "c">> >>, <<"string">>, <<"string">>)>>)}}

InitRt ==
    /\ resolve \in RtWorlds
    /\ world = resolve.name
    /\ src = generate(resolve)
    /\ files = << [name |-> file_name(resolve), contents |-> src] >>
    /\ pc = "done"
    /\ pending = {}
    /\ ops = <<>>
    /\ runs = <<>>
    /\ opts = DefaultOpts
    /\ RtInit

Artifact == files[1].contents

\* The record of a call into the artifact: what ran, whether it ran out of
\* memory or was refused, what it returned, the call before it, and the
\* calls of cabi_realloc so far.
Called(op, failed, ret) ==
    [op |-> op, failed |-> failed, ret |-> ret, before |-> <<last.op, last.failed>>,
     reallocs |-> last.reallocs + (IF op = "realloc" THEN 1 ELSE 0)]

\* A caller calls the export declared at Artifact[i]; the Guest function
\* returns a string of len bytes that it took from `allocator`.
CallExport(i, len) ==
    /\ pc = "done"
    /\ rt = "idle"
    /\ i \in Decls(Artifact)
    /\ HasFrag(Binding(Artifact, i), "lower", "string")
    /\ LET p == allocator_alloc(Rt, len)
           l == lower_string_rt(p.h, [ptr |-> p.ptr, len |-> len])
       IN  /\ p.ok
           /\ IF l.ok
              THEN /\ heap' = l.h.heap
                   /\ mem' = l.h.mem
                   /\ brk' = l.h.brk
                   /\ calls' = Append(calls, [binding |-> i,
                                              payload |-> [ptr |-> p.ptr, len |-> len],
                                              allocs |-> l.allocs,
                                              ret |-> l.ret,
                                              post |-> <<>>])
                   /\ last' = Called("alloc", FALSE, <<l.ret>>)
                   /\ UNCHANGED rt
              ELSE /\ rt' = "panicked"
                   /\ heap' = p.h.heap
                   /\ brk' = p.h.brk
                   /\ last' = Called("alloc", TRUE, <<>>)
                   /\ UNCHANGED <<mem, calls>>
    /\ UNCHANGED gvars

\* The caller calls the post-return entry point of call k with the pointer
\* that call returned.
CallPostReturn(k) ==
    /\ pc = "done"
    /\ rt = "idle"
    /\ k \in 1..Len(calls)
    /\ calls[k].post = <<>>
    /\ HasKind(Binding(Artifact, calls[k].binding), "post_return")
    /\ LET r == post_return_rt(Rt, calls[k].ret)
       IN  IF r.ok
           THEN /\ heap' = r.h.heap
                /\ calls' = [calls EXCEPT ![k].post = << [read |-> r.read, freed |-> r.freed] >>]
                /\ last' = Called("post_return", FALSE, <<>>)
                /\ UNCHANGED <<mem, brk, rt>>
           ELSE /\ rt' = "panicked"
                /\ last' = Called("post_return", TRUE, <<>>)
                /\ UNCHANGED <<heap, mem, brk, calls>>
    /\ UNCHANGED gvars

\* The caller calls cabi_realloc on the string the last call of an export
\* returned, for newSize bytes.
CallRealloc(newSize) ==
    /\ pc = "done"
    /\ rt = "idle"
    /\ HasKind(Artifact, "preamble")
    /\ last.reallocs < MaxReallocs
    /\ calls # <<>>
    /\ calls[Len(calls)].payload \in heap
    /\ LET r == cabi_realloc(Rt, calls[Len(calls)].payload, newSize)
       IN  /\ heap' = r.h.heap
           /\ mem' = r.h.mem
           /\ brk' = r.h.brk
           /\ last' = Called("realloc", r.failed, <<r.ret>>)
    /\ UNCHANGED <<rt, calls>>
    /\ UNCHANGED gvars

NextRt ==
    \/ \E i \in 1..Len(Artifact), len \in 0..MaxLen : CallExport(i, len)
    \/ \E k \in 1..Len(calls) : CallPostReturn(k)
    \/ \E newSize \in 1..(MaxLen + 1) : CallRealloc(newSize)

SpecRt == InitRt /\ [][NextRt]_vars

\* ------------------------------------------------------------- properties
\* The functions of the items of the given kinds, each with the prefix of
\* the symbols of its binding.
FuncsOf(kinds) ==
    UNION {{[func |-> resolve.items[i].funcs[j],
             prefix |-> IF resolve.items[i].kind = "func" THEN NoPrefix
                        ELSE SomePrefix(get_package_name_with(resolve.items[i].key))] :
              j \in 1..Len(resolve.items[i].funcs)} :
           i \in {x \in 1..Len(resolve.items) : resolve.items[x].kind \in kinds}}

\* The functions the world exports: its own and those of its exported
\* interfaces.
ExportedFuncs == FuncsOf({"func", "export"})

\* The functions export is called for.
BoundFuncs == FuncsOf({"func", "import"})

Unimplemented == {"float32", "float64", "char"} \cup IdTypes

HasUnimplemented(func) ==
    \/ \E i \in 1..Len(func.params) : func.params[i].ty \in Unimplemented
    \/ \E i \in 1..Len(func.results) : func.results[i] \in Unimplemented

\* C1: for every exported function (of the world or of an exported
\* interface) the artifact holds a post-return entry point for it if and
\* only if guest_export_needs_post_return is true for it.
C1_PostReturnIffOracle ==
    pc = "done" =>
        \A e \in ExportedFuncs :
            HasFrag(Artifact, "post_return", post_return_symbol(e.func, e.prefix))
                <=> guest_export_needs_post_return(e.func)

\* C2: a world with an exported function of two or more results never
\* reaches files.push.
C2_MultiResultAborts ==
    (\E e \in ExportedFuncs : Len(e.func.results) >= 2) => files = <<>>

\* C3: a world with an exported function that has a parameter or a result
\* of an unimplemented type never reaches files.push.
C3_UnimplementedAborts ==
    (\E e \in ExportedFuncs : HasUnimplemented(e.func)) => files = <<>>

\* C4: a completed run has pushed exactly one file, named after the world
\* in kebab case, holding the assembled text; before finish completes, and
\* after an abort, no file has been pushed.
C4_OneArtifactIffComplete ==
    /\ pc = "done" =>
         /\ Len(files) = 1
         /\ files[1].name = "my-w.zig"
         /\ files[1].contents = src
    /\ pc # "done" => files = <<>>

C4_Witness ==
    /\ pc = "done"
    /\ Len(files) = 1
    /\ Decls(Artifact) # {}

\* The ABI parameters the claim gives params[1..n].
RECURSIVE ExpectedAbi(_, _)
ExpectedAbi(params, n) ==
    IF n = 0 THEN <<>>
    ELSE LET id == to_snake_case(params[n].name)
         IN  ExpectedAbi(params, n - 1)
             \o (IF params[n].ty = "string"
                 THEN << <<id \o "Ptr", "[*]u8">>, <<id \o "Length", "u32">> >>
                 ELSE << <<id, params[n].ty>> >>)

\* C5: the parameter list of every binding is the in-order concatenation of
\* (name, T) for a primitive and (namePtr, pointer), (nameLength, u32) for a
\* string parameter, and nothing of a binding before its invocation
\* allocates.
C5_AbiParamsInPlace ==
    pc = "done" =>
        \A i \in Decls(Artifact) : \A e \in BoundFuncs :
            Artifact[i].name = export_symbol(e.func, e.prefix) =>
                /\ Artifact[i].items = ExpectedAbi(e.func.params, Len(e.func.params))
                /\ \A j \in (i + 1)..SegEnd(Artifact, i) :
                       (\E m \in j..SegEnd(Artifact, i) : Artifact[m].k = "invoke")
                           => Artifact[j].k \in {"ret", "lift", "invoke"}

\* The identifier the lift stage gives params[i].
Lifted(params) ==
    [i \in 1..Len(params) |-> <<avoid_keyword(to_snake_case(params[i].name)), "">>]

\* C9: the invocation of every binding passes, in declaration order, the
\* identifier the lift stage made available for each declared parameter.
C9_InvokeArgsAreLifted ==
    pc = "done" =>
        \A i \in Decls(Artifact) : \A e \in BoundFuncs :
            Artifact[i].name = export_symbol(e.func, e.prefix) =>
                \E j \in (i + 1)..SegEnd(Artifact, i) :
                    /\ Artifact[j].k = "invoke"
                    /\ Artifact[j].items = Lifted(e.func.params)

\* C10: the symbols of the exported functions and of the post-return entry
\* points of one artifact are pairwise distinct.
C10_SymbolsDistinct ==
    pc = "done" =>
        \A i, j \in {x \in 1..Len(Artifact) : Artifact[x].k \in {"decl", "post_return"}} :
            i # j => Artifact[i].name # Artifact[j].name

\* C6 as stated: lowering a string result makes exactly one allocation, of
\* the byte length of the result.
C6_LowerAllocatesPayloadSize ==
    \A k \in 1..Len(calls) :
        /\ Len(calls[k].allocs) = 1
        /\ calls[k].allocs[1].len = calls[k].payload.len

\* C6 as amended: lowering a string result makes exactly one allocation, of
\* the 8 bytes of the (pointer, length) header whatever the length of the
\* result, and returns the address of that block as the one wire value, of
\* pointer type.
C6_LowerAllocatesHeader ==
    \A k \in 1..Len(calls) :
        /\ Len(calls[k].allocs) = 1
        /\ calls[k].allocs[1].len = 8
        /\ calls[k].ret = calls[k].allocs[1].ptr
        /\ HasFrag(Binding(Artifact, calls[k].binding), "ret", "[*]u8")

C6_Witness ==
    \E k \in 1..Len(calls) :
        /\ calls[k].payload.len = MaxLen
        /\ calls[k].allocs # <<>>

\* C7: the post-return entry point, called with the pointer lowering
\* returned, reads back the (pointer, length) lowering wrote and frees
\* exactly the bytes of the result.
C7_PostReturnRoundTrip ==
    \A k \in 1..Len(calls) :
        calls[k].post # <<>> =>
            /\ calls[k].post[1].read = calls[k].payload
            /\ calls[k].payload.len > 0 => calls[k].post[1].freed = << calls[k].payload >>

\* How often the post-return calls so far released block b.
RECURSIVE FreedCount(_, _)
FreedCount(b, n) ==
    IF n = 0 THEN 0
    ELSE FreedCount(b, n - 1)
         + (IF calls[n].post # <<>> /\ b \in {calls[n].post[1].freed[x] :
                                              x \in 1..Len(calls[n].post[1].freed)}
            THEN 1 ELSE 0)

\* C8: once every call of the export has been followed by the call of its
\* post-return, every block allocated while lowering has been freed exactly
\* once.
C8_LoweringAllocsFreedOnce ==
    (\A k \in 1..Len(calls) : calls[k].post # <<>>) =>
        \A k \in 1..Len(calls) : \A x \in 1..Len(calls[k].allocs) :
            /\ FreedCount(calls[k].allocs[x], Len(calls)) = 1
            /\ calls[k].allocs[x] \notin heap

\* The references to interfaces the world holds: the keys of its imported
\* and exported interfaces.
InterfaceRefs ==
    {resolve.items[i].key : i \in ItemsOf("import") \cup ItemsOf("export")}

\* What the generator resolves key to in the current state: the display
\* name, the prefix of the export keys, the interface variable.
Resolved(key) ==
    [display |-> get_ty_name_with(key),
     prefix |-> get_package_name(key, world),
     var |-> get_interface_var_name(key)]

\* The names printed when an imported interface was processed are the names
\* its reference resolves to in this state.
PrintedAsResolved ==
    pc \in {"run", "done"} =>
        \A i \in ItemsOf("import") \ pending :
            \A j \in 1..Len(resolve.items[i].funcs) :
                /\ HasFrag(src, "decl",
                           Resolved(resolve.items[i].key).prefix
                           \o Raw(resolve.items[i].funcs[j].name))
                /\ HasFrag(src, "invoke", Resolved(resolve.items[i].key).var)

ParamFuncs ==
    UNION {{[item |-> resolve.items[i], func |-> resolve.items[i].funcs[j]] :
              j \in {y \in 1..Len(resolve.items[i].funcs) :
                       resolve.items[i].funcs[y].params # <<>>}} :
           i \in 1..Len(resolve.items)}

\* C13: for every primitive type T the wire type, the storage type and the
\* type of the ABI parameter lift_value records are one string, and so the
\* artifact of a world function with a parameter of type T and a result of
\* type T declares the ABI parameter, the stub parameter, the binding's
\* result and the stub's result with that one string.
C13_PrimitiveTypesAgree ==
    /\ \A T \in Primitives :
          /\ get_zig_binding_ty(T) = get_zig_ty(T)
          /\ lift_value("x", T).args = << <<"x", get_zig_ty(T)>> >>
    /\ pc = "done" =>
          \A e \in ParamFuncs :
              LET T == e.func.params[1].ty
              IN  (/\ e.item.kind = "func"
                   /\ T \in Primitives
                   /\ e.func.results = <<T>>) =>
                      \E ty \in {get_zig_ty(T)} :
                          /\ \E i \in Decls(Artifact) :
                                 /\ Artifact[i].items = << <<"s", ty>> >>
                                 /\ Artifact[i + 1] = Frag("ret", ty, "", <<>>)
                          /\ HasFrag(Artifact, "stub_param", "s")
                          /\ \E j \in 1..Len(Artifact) :
                                 /\ Artifact[j].k = "stub_param"
                                 /\ Artifact[j].aux = ty
                          /\ HasFrag(Artifact, "stub_close", ty)

\* A completed run on a world function from s64 to s64.
C13_Witness ==
    /\ pc = "done"
    /\ \E e \in ParamFuncs :
           /\ e.item.kind = "func"
           /\ e.func.params[1].ty = "s64"
           /\ e.func.results = <<"s64">>
    /\ \E i \in Decls(Artifact) : Artifact[i].items = << <<"s", "s64">> >>

\* C14: two anonymous compound types get the same name from get_ty_name if
\* and only if they have the same structure.
C14_TyNameInjective ==
    Len(src) = 2 /\ src[1].k = "ty_name" /\ src[2].k = "ty_name" =>
        (src[1].name = src[2].name <=> resolve.types[1] = resolve.types[2])

\* The free functions the world exports whose parameters are all u32 and
\* that return one u32.
U32Funcs ==
    {e \in FuncsOf({"func"}) :
        /\ e.func.results = <<"u32">>
        /\ \A i \in 1..Len(e.func.params) : e.func.params[i].ty = "u32"}

\* C15: the artifact of a world that exports a free function from u32
\* parameters to one u32 result has exactly one export symbol for it, with
\* one u32 wire parameter per declared parameter in order and a u32 wire
\* result, returned as it is; it has exactly one registration line for it,
\* no post-return entry point and no post-return registration line.
C15_U32FunctionBinding ==
    pc = "done" =>
        \A e \in U32Funcs :
            /\ \E i \in Decls(Artifact) :
                   /\ Artifact[i].name = "__export_" \o Raw(e.func.name)
                   /\ \A j \in Decls(Artifact) :
                          Artifact[j].name = Artifact[i].name => j = i
                   /\ Artifact[i].items =
                          [p \in 1..Len(e.func.params) |->
                              <<to_snake_case(e.func.params[p].name), "u32">>]
                   /\ Artifact[i + 1] = Frag("ret", "u32", "", <<>>)
                   /\ HasFrag(Binding(Artifact, i), "lower", "prim")
                   /\ ~HasKind(Binding(Artifact, i), "post_return")
            /\ Cardinality({j \in 1..Len(Artifact) :
                               /\ Artifact[j].k = "export_line"
                               /\ Artifact[j].aux = Raw(e.func.name)}) = 1
            /\ ~HasFrag(Artifact, "post_return", post_return_symbol(e.func, NoPrefix))
            /\ ~HasFrag(Artifact, "post_line", post_return_symbol(e.func, NoPrefix))

\* A completed run on a world that exports a function of MaxParams u32
\* parameters and one u32 result.
C15_Witness ==
    /\ pc = "done"
    /\ \E e \in U32Funcs : Len(e.func.params) = MaxParams
    /\ HasKind(Artifact, "export_line")

\* The functions from one string to one string of the exported interfaces
\* that have a package-qualified key.
QualifiedStringFuncs ==
    {e \in FuncsOf({"export"}) :
        /\ e.prefix.pre = "n:p/i-o#"
        /\ Len(e.func.params) = 1
        /\ e.func.params[1].ty = "string"
        /\ e.func.results = <<"string">>}

\* C16: the artifact of a world that exports the interface n:p/i-o with
\* f(s: string) -> string holds an export symbol n:p/i-o#f taking the
\* (pointer, length) pair of s, whose lowering writes the 8-byte header, and
\* a post-return entry point for it.
C16_ExportedInterfaceBinding ==
    pc = "done" =>
        \A e \in QualifiedStringFuncs :
            /\ \E i \in Decls(Artifact) :
                   /\ Artifact[i].name = "n:p/i-o#" \o Raw(e.func.name)
                   /\ Artifact[i].items = << <<"sPtr", "[*]u8">>, <<"sLength", "u32">> >>
                   /\ HasFrag(Binding(Artifact, i), "lower", "string")
            /\ HasFrag(Artifact, "post_return", post_return_symbol(e.func, e.prefix))

\* The text operation op of the run pushed to the generator's src.
Emitted(op) ==
    CASE op[1] = "import_interface" ->
            export_all(resolve.items[op[2]].funcs, Len(resolve.items[op[2]].funcs),
                       resolve.items[op[2]].key,
                       SomePrefix(get_package_name_with(resolve.items[op[2]].key))).src
      [] op[1] = "export_interface" -> export_interface_src(resolve.items[op[2]]).src
      [] op[1] = "export_funcs" ->
            export_all(WorldFuncs, Len(WorldFuncs), NoKey, NoPrefix).src
      [] OTHER -> <<>>

RECURSIVE EmittedBy(_, _)
EmittedBy(os, n) ==
    IF n = 0 THEN <<>> ELSE EmittedBy(os, n - 1) \o Emitted(os[n])

\* The place of a fragment of the closing part of the artifact: the Guest
\* struct with its members, the opening of the registration block, the
\* export lines, the post-return lines, the program entry.
BlockRank(f) ==
    CASE f.k \in {"struct_open", "stub_open", "stub_param", "stub_close"} -> 1
      [] f.k = "struct_close_comptime" -> 2
      [] f.k = "export_line" -> 3
      [] f.k = "post_line" -> 4
      [] f.k = "main" -> 5
      [] OTHER -> 0

CountKind(seq, k) == Cardinality({i \in 1..Len(seq) : seq[i].k = k})

\* C17: the artifact starts with the one preamble; then comes what the
\* operations of the run emitted, in the order they were called; then, after
\* the Guest struct that finish prints, the registration block with every
\* export line before every post-return line; the one program-entry stub is
\* last.
C17_BlockOrder ==
    pc = "done" =>
        LET body == EmittedBy(ops, Len(ops))
            rest == SubSeq(Artifact, Len(body) + 2, Len(Artifact))
        IN  /\ Artifact[1].k = "preamble"
            /\ CountKind(Artifact, "preamble") = 1
            /\ SubSeq(Artifact, 2, Len(body) + 1) = body
            /\ \A i \in 1..Len(body) : body[i].k \notin {"export_line", "post_line", "main"}
            /\ rest # <<>>
            /\ \A i, j \in 1..Len(rest) :
                   i < j => 0 < BlockRank(rest[i]) /\ BlockRank(rest[i]) <= BlockRank(rest[j])
            /\ CountKind(rest, "export_line") = Len(WorldFuncs)
            /\ CountKind(rest, "struct_close_comptime") = 1
            /\ Artifact[Len(Artifact)].k = "main"
            /\ CountKind(Artifact, "main") = 1

\* A completed run with two operations that emitted bindings, and with a
\* post-return line after an export line.
C17_Witness ==
    /\ pc = "done"
    /\ \E a, b \in 1..Len(ops) : a < b /\ Emitted(ops[a]) # <<>> /\ Emitted(ops[b]) # <<>>
    /\ HasKind(Artifact, "post_line")
    /\ HasKind(Artifact, "export_line")

\* The name under which the registration table lists exported function e.
ExportName(e) == (IF e.prefix.some THEN e.prefix.pre ELSE "") \o Raw(e.func.name)

\* C18: the registration table holds exactly one export line for every
\* exported function of the world, the functions of its exported interfaces
\* included, and a post-return line for exactly the functions for which
\* guest_export_needs_post_return is true.
C18_RegistrationComplete ==
    pc = "done" =>
        \A e \in ExportedFuncs :
            /\ Cardinality({j \in 1..Len(Artifact) :
                               /\ Artifact[j].k = "export_line"
                               /\ Artifact[j].aux = ExportName(e)}) = 1
            /\ Cardinality({j \in 1..Len(Artifact) :
                               /\ Artifact[j].k = "post_line"
                               /\ Artifact[j].aux = "cabi_post_" \o ExportName(e)})
                   = (IF guest_export_needs_post_return(e.func) THEN 1 ELSE 0)

\* C19: the emitted alloc never hands a failure to its caller, it ends the
\* artifact when out of memory; cabi_realloc never ends the artifact and
\* returns null when out of memory, a pointer otherwise; and the only text
\* of the artifact that calls allocator.free is a post-return entry point.
C19_AllocPanicsReallocNull ==
    /\ last.op = "alloc" =>
          /\ last.failed <=> rt = "panicked"
          /\ last.failed <=> last.ret = <<>>
          /\ ~last.failed => last.ret[1] # 0
    /\ last.op = "realloc" =>
          /\ rt = "idle"
          /\ last.failed <=> last.ret = <<0>>
          /\ ~last.failed => \E b \in heap : b.ptr = last.ret[1]
    /\ rt = "panicked" => last.op = "alloc"
    /\ \A i \in 1..Len(Artifact) :
          "allocator.free" \in Invokes(Artifact[i]) => Artifact[i].k = "post_return"

\* cabi_realloc ran out of memory and returned null, and the alloc of the
\* next call ran out of memory and ended the artifact.
C19_Witness ==
    /\ last.op = "alloc"
    /\ last.failed
    /\ rt = "panicked"
    /\ last.before = <<"realloc", TRUE>>

\* C20: a run on a world whose one export is a free function with no
\* result, and with parameters of supported types, does not abort, and the
\* binding it emits holds the invocation and no lowering.
C20_ZeroResultsCompletes ==
    (/\ Len(resolve.items) = 1
     /\ resolve.items[1].kind = "func"
     /\ resolve.items[1].funcs[1].results = <<>>
     /\ \A i \in 1..Len(resolve.items[1].funcs[1].params) :
            resolve.items[1].funcs[1].params[i].ty \in Primitives \cup {"string"}) =>
        /\ pc # "aborted"
        /\ pc = "done" =>
              \E i \in Decls(Artifact) :
                  /\ HasKind(Binding(Artifact, i), "invoke")
                  /\ ~HasKind(Binding(Artifact, i), "lower")

\* C21: the display names the resolver gives two distinct scopes are
\* distinct: the names printed for the types of two interfaces of different
\* keys differ, a collision being broken by an integer suffix.
C21_DisplayNamesDistinct ==
    \A i, j \in 1..Len(src) :
        (/\ i < j
         /\ src[i].k = "type_name"
         /\ src[j].k = "type_name"
         /\ resolve.items[1].key # resolve.items[2].key) =>
            src[i].name # src[j].name


\* The step is a call of import_interface.
ImportInterfaceStep ==
    /\ Len(ops') = Len(ops) + 1
    /\ ops'[Len(ops')][1] = "import_interface"

\* C22: a call of import_interface leaves the emission buffer as it was,
\* and the artifact of a completed run declares no entry point for a
\* function of an imported interface.
C22_ImportInterfaceNoEffect ==
    [][/\ ImportInterfaceStep => src' = src
       /\ pc' = "done" =>
             \A e \in FuncsOf({"import"}) :
                 ~HasFrag(src', "decl", export_symbol(e.func, e.prefix))]_vars


IsPrefix(a, b) == Len(a) <= Len(b) /\ SubSeq(b, 1, Len(a)) = a

\* C23 as stated: over every step of the generator the buffer before the
\* step is a prefix of the buffer after it.
C23_AppendOnly ==
    [][IsPrefix(src, src')]_vars

\* The step is a call of finish that completed.
FinishStep ==
    /\ Len(ops') = Len(ops) + 1
    /\ ops'[Len(ops')][1] = "finish"
    /\ pc' = "done"

\* C23 as amended: over every step but a completed finish the buffer before
\* the step is a prefix of the buffer after it; finish leaves the preamble,
\* then the buffer as it was before finish, whole and in order, then the
\* blocks finish adds, none of which is a binding.
C23_AppendOnlyUntilFinish ==
    [][IF FinishStep
       THEN /\ Len(src') >= Len(src) + 2
            /\ src'[1].k = "preamble"
            /\ SubSeq(src', 2, Len(src) + 1) = src
            /\ \A i \in (Len(src) + 2)..Len(src') :
                   src'[i].k \notin {"preamble", "decl"} /\ ~IsBindingFrag(src'[i])
       ELSE IsPrefix(src, src')]_vars

\* finish completed on a buffer that held the text of two operations: the
\* preamble stands before the first of them.
C23_Witness ==
    /\ pc = "done"
    /\ Len(ops) = 4
    /\ src[1].k = "preamble"
    /\ src[2].k \in {"decl", "struct_open"}
    /\ Len(EmittedBy(ops, 2)) > 0
    /\ Len(EmittedBy(ops, 3)) > Len(EmittedBy(ops, 2))


\* Keyword avoidance against the reserved-word set R.
Avoided(R, s) == IF s \in R THEN s \o "_" ELSE s

\* The ABI parameters of params[1..n] when the identifiers are resolved
\* against the reserved-word set R.
RECURSIVE ExpectedAbiUnder(_, _, _)
ExpectedAbiUnder(R, params, n) ==
    IF n = 0 THEN <<>>
    ELSE LET id == Avoided(R, to_snake_case(params[n].name))
         IN  ExpectedAbiUnder(R, params, n - 1)
             \o (IF params[n].ty = "string"
                 THEN << <<id \o "Ptr", "[*]u8">>, <<id \o "Length", "u32">> >>
                 ELSE << <<id, params[n].ty>> >>)

\* The identifiers of the parameters of the schema, in snake case.
ParamIdents == {to_snake_case(ParamName(i)) : i \in 1..MaxParams}

C25_StubsChangeArtifact ==
    /\ (pc = "done" /\ opts.stubs /\ ExportedFuncs # {}) =>
          ~HasKind(Artifact, "invoke")
    /\ (/\ runs # <<>>
        /\ pc = "done"
        /\ runs[1].pc = "done"
        /\ runs[1].opts.stubs # opts.stubs
        /\ ExportedFuncs # {}) =>
          files # runs[1].files


\* The member that opens at c[j] ("fn name(" and its parameters) is closed:
\* after its parameters comes ") ty {}".
StubClosed(c, j) ==
    \E m \in (j + 1)..Len(c) :
        /\ c[m].k = "stub_close"
        /\ \A x \in (j + 1)..(m - 1) : c[x].k = "stub_param"

\* The binding declared at c[i] has its return type and the opening of its
\* body once (they are one fragment) and the closing of its body once (the
\* text of the lowering ends with it).
BindingClosed(c, i) ==
    /\ CountKind(Binding(c, i), "ret") = 1
    /\ CountKind(Binding(c, i), "lower") = 1

\* C26: every function declaration in the text emitted so far is complete:
\* every binding has a return type and a body opened and closed once, and
\* every member of the Guest struct and of an interface struct has its
\* parameter list closed, a return type and a body.
C26_DeclarationsComplete ==
    /\ \A i \in Decls(src) : BindingClosed(src, i)
    /\ \A j \in 1..Len(src) : src[j].k = "stub_open" => StubClosed(src, j)


\* The text c holds a struct named target with a member named member.
HasMember(c, target, member) ==
    \E st \in 1..Len(c) : \E m \in (st + 1)..Len(c) :
        /\ c[st].k = "struct_open"
        /\ c[st].name = target
        /\ c[m].k = "stub_open"
        /\ c[m].name = member
        /\ \A x \in (st + 1)..(m - 1) :
               c[x].k \notin {"struct_open", "struct_close", "struct_close_comptime"}

\* C27: in the artifact of a completed run the target of the invocation of
\* every binding is a struct of the artifact with a member of the invoked
\* name, and every symbol named in the registration block is declared by a
\* binding or a post-return entry point that stands before it.
C27_NamesDefined ==
    pc = "done" =>
        \A j \in 1..Len(Artifact) :
            /\ Artifact[j].k = "invoke" =>
                   HasMember(Artifact, Artifact[j].name, Artifact[j].aux)
            /\ Artifact[j].k = "export_line" =>
                   \E i \in 1..(j - 1) :
                       Artifact[i].k = "decl" /\ Artifact[i].name = Artifact[j].name
            /\ Artifact[j].k = "post_line" =>
                   \E i \in 1..(j - 1) :
                       Artifact[i].k = "post_return" /\ Artifact[i].name = Artifact[j].name

====
